---- MODULE Spec2Model ----
(***************************************************************************)
(* Model of src/api.py: the Indeed and LinkedIn scraping runs behind the   *)
(* two endpoints of the job scraping API.                                  *)
(*                                                                         *)
(* Strings with structure are kept structured: an URN is the sequence of   *)
(* its ':'-separated segments, an URL is the pair <<prefix, identifier>>,  *)
(* a message is the tuple of its parts.  A field value is a tuple: '' is   *)
(* <<>>, None is PyNone, the text of an element that is present is a      *)
(* fixed token per locator.  Identifiers are plain strings.                *)
(***************************************************************************)
EXTENDS Integers, Sequences, FiniteSets, TLC

\* ---------------------------------------------------------------- bounds
\* largest page count a LinkedIn caller asks for
MaxPages == 2
\* most entries (li elements, job cards) one listing page carries
MaxEntries == 2
\* most entries all listing pages of one run carry together
MaxListed == 2

\* ------------------------------------------------------- program constants
PAGES_TO_SCRAPE == 1
max_retries == 3
LINKEDIN_PAGE_SIZE == 25
INDEED_PAGE_SIZE == 10
HTTP_200_OK == 200
HTTP_500_INTERNAL_SERVER_ERROR == 500
DEFAULT_DAYS_POSTED == 7
DEFAULT_RADIUS == 50

\* statuses other than 200 that a board answers with
RefusedStatuses == {403, 429}

PyNone == <<"None">>

SeqsUpTo(S, n) == UNION {[1..k -> S] : k \in 0..n}

Min(a, b) == IF a < b THEN a ELSE b

\* ------------------------------------------------------------- inputs
\* identifiers the boards hand out
JobIds == {"1001", "1002"}

\* one <li> of a LinkedIn listing page: whether it holds a div.base-card,
\* and the segments of that div's data-entity-urn (<<"">> when the attribute
\* is missing: .get('data-entity-urn', '') and ''.split(':') == [''])
LiEntries ==
    {[div |-> TRUE, urn |-> <<"urn", "li", "jobPosting", id>>] : id \in JobIds}
      \cup {[div |-> TRUE, urn |-> <<"">>], [div |-> FALSE, urn |-> <<"">>]}

\* what requests.get returns or does for a LinkedIn listing page
LinkedInListings(room) ==
    {[kind |-> "response", status |-> HTTP_200_OK, lis |-> l] :
        l \in SeqsUpTo(LiEntries, Min(MaxEntries, room))}
      \cup {[kind |-> "response", status |-> st, lis |-> <<>>] : st \in RefusedStatuses}
      \cup {[kind |-> "exception", status |-> 0, lis |-> <<>>]}

\* a LinkedIn detail document, one state per locator of scrape_job_page
LinkedInDoc(t, o, l, p, a, d, c) ==
    [title |-> t, org |-> o, location |-> l, posted |-> p, applicants |-> a,
     description |-> d, criteria |-> c]

LinkedInDocs ==
    {LinkedInDoc(t, o, l, p, a, d, c) :
        t \in {"ok", "missing"}, o \in {"ok", "missing", "nohref"},
        l \in {"ok", "missing"}, p \in {"ok", "missing"},
        a \in {"ok", "missing"}, d \in {"ok", "missing"},
        c \in {"none", "ok", "malformed"}}

\* the documents served during a run: complete, bare, with an item of the
\* criteria list lacking its heading, and with an organisation link that
\* has no href
LinkedInRunDocs ==
    {LinkedInDoc("ok", "ok", "ok", "ok", "ok", "ok", "ok"),
     LinkedInDoc("missing", "missing", "missing", "missing", "missing", "missing", "none"),
     LinkedInDoc("ok", "ok", "missing", "ok", "ok", "ok", "malformed"),
     LinkedInDoc("ok", "nohref", "ok", "ok", "ok", "ok", "ok")}

\* what requests.get returns or does for a detail page
DetailFetches(docs) ==
    {[kind |-> "response", status |-> HTTP_200_OK, doc |-> d] : d \in docs}
      \cup {[kind |-> "response", status |-> st, doc |-> "none"] : st \in RefusedStatuses}
      \cup {[kind |-> "exception", status |-> 0, doc |-> "none"]}

\* one div.job_seen_beacon of an Indeed listing page: whether it holds an
\* a.jcs-JobTitle, and that link's data-jk ("" when the attribute is missing)
JobCards ==
    {[link |-> TRUE, jk |-> id] : id \in JobIds}
      \cup {[link |-> TRUE, jk |-> ""], [link |-> FALSE, jk |-> ""]}

\* what driver.get does for an Indeed listing page: the page it loads (a
\* blocked load shows a challenge page without cards) or an exception
IndeedListings(room) ==
    {[kind |-> "page", blocked |-> FALSE, cards |-> c] :
        c \in SeqsUpTo(JobCards, Min(MaxEntries, room))}
      \cup {[kind |-> "page", blocked |-> TRUE, cards |-> <<>>],
            [kind |-> "exception", blocked |-> FALSE, cards |-> <<>>]}

\* an Indeed detail document, one state per locator of get_job_details
IndeedDoc(c, t, i, r, d, p, j, s, b, u) ==
    [og_description |-> c, title |-> t, og_image |-> i, remote_badge |-> r,
     description |-> d, pay |-> p, job_types |-> j, shifts |-> s,
     benefits |-> b, og_url |-> u]

IndeedDocs ==
    {IndeedDoc(c, t, i, r, d, p, j, s, b, u) :
        c \in {"ok", "missing", "nocontent"}, t \in {"ok", "missing", "nosep"},
        i \in {"ok", "missing", "nocontent"}, r \in BOOLEAN,
        d \in {"ok", "missing"}, p \in {"ok", "missing"},
        j \in {"ok", "missing"}, s \in {"ok", "missing"},
        b \in {"ok", "missing", "noul"}, u \in {"ok", "missing", "nocontent"}}

\* the documents served during a run: complete, bare, and with a title that
\* has no " - " in it
IndeedRunDocs ==
    {IndeedDoc("ok", "ok", "ok", TRUE, "ok", "ok", "ok", "ok", "ok", "ok"),
     IndeedDoc("missing", "missing", "missing", FALSE, "missing", "missing",
               "missing", "missing", "missing", "missing"),
     IndeedDoc("ok", "nosep", "ok", TRUE, "ok", "ok", "ok", "ok", "ok", "ok")}

\* what driver.get does for an Indeed detail page
IndeedDetailFetches(docs) ==
    {[kind |-> "page", doc |-> d] : d \in docs}
      \cup {[kind |-> "exception", doc |-> "none"]}

\* what the browser does during human_like_interaction: whether the first
\* cursor move and the later moves and scrolls go through
Interactions == [first : BOOLEAN, later : BOOLEAN]

\* ------------------------------------------------- LinkedIn detail page
\* get_text(strip=True) of the element a locator finds
TextOf(locator) == <<"text", locator>>

\* dict.update: the keys of e are set in d
Update(d, e) ==
    [k \in DOMAIN d \cup DOMAIN e |-> IF k \in DOMAIN e THEN e[k] ELSE d[k]]

EmptyDict == [k \in {} |-> <<>>]

\* the li.description__job-criteria-item elements of a document: the words of
\* the h3 (<<>> when the item has no h3) and whether it has a span
CriteriaItems(c) ==
    CASE c = "none" -> <<>>
      [] c = "ok" -> <<[h3 |-> <<"Seniority", "level">>, span |-> TRUE],
                       [h3 |-> <<"Employment", "type">>, span |-> TRUE]>>
      [] c = "malformed" -> <<[h3 |-> <<>>, span |-> TRUE],
                              [h3 |-> <<"Employment", "type">>, span |-> TRUE],
                              [h3 |-> <<"Industries">>, span |-> FALSE]>>

\* get_text(strip=True).replace(' ', '_').lower() of a heading
CriteriaKey(h3) ==
    CASE h3 = <<"Seniority", "level">> -> "seniority_level"
      [] h3 = <<"Employment", "type">> -> "employment_type"
      [] h3 = <<"Industries">> -> "industries"

RECURSIVE CriteriaFrom(_, _)
CriteriaFrom(items, criteria) ==
    IF items = <<>> THEN criteria
    ELSE LET item == Head(items)
         IN  IF item.h3 = <<>> \/ ~item.span
             THEN CriteriaFrom(Tail(items), criteria)
             ELSE CriteriaFrom(Tail(items),
                      Update(criteria,
                             [k \in {CriteriaKey(item.h3)} |-> TextOf(CriteriaKey(item.h3))]))

get_job_criteria(doc) == CriteriaFrom(CriteriaItems(doc.criteria), EmptyDict)

\* the result of a call: a returned value, a returned None, or an exception
\* that leaves it
Return(v) == [kind |-> "return", value |-> v]
ReturnNone == [kind |-> "none"]
Raise(e) == [kind |-> "raise", value |-> e]

Find(state, locator) == IF state = "missing" THEN PyNone ELSE TextOf(locator)

\* the body of the try block of scrape_job_page
scrape_job_page_try(job_id, fetch) ==
    IF fetch.kind = "exception" THEN Raise("RequestException")
    ELSE IF fetch.status /= HTTP_200_OK THEN ReturnNone
    ELSE IF fetch.doc.org = "nohref" THEN Raise("KeyError")
    ELSE LET doc == fetch.doc
             job_data ==
                 [job_id |-> job_id,
                  title |-> Find(doc.title, "title"),
                  company |-> Find(doc.org, "company"),
                  location |-> Find(doc.location, "location"),
                  posted |-> Find(doc.posted, "posted"),
                  applicants |-> Find(doc.applicants, "applicants"),
                  url |-> <<"https://www.linkedin.com/jobs/view/", job_id>>,
                  company_url |-> IF doc.org = "missing" THEN PyNone
                                  ELSE <<"href", "company">>]
             described ==
                 IF doc.description = "ok"
                 THEN Update(job_data, [description |-> TextOf("description")])
                 ELSE job_data
         IN  Return(Update(described, get_job_criteria(doc)))

\* scrape_job_page without its except clause
scrape_job_page_unguarded(job_id, fetch) == scrape_job_page_try(job_id, fetch)

\* except Exception: log and return None
scrape_job_page(job_id, fetch) ==
    LET r == scrape_job_page_try(job_id, fetch)
    IN  IF r.kind = "raise" THEN ReturnNone ELSE r

\* Python truth of what scrape_job_page returns: None and {} are false
Truthy(r) == r.kind = "return" /\ DOMAIN r.value /= {}

\* --------------------------------------------------- Indeed detail page
\* the details dictionary get_job_details starts from
DefaultDetails ==
    [job_id |-> "", title |-> <<>>, company |-> <<>>, location |-> <<>>,
     salary |-> <<>>, posted |-> <<>>, job_url |-> <<>>, company_rating |-> <<>>,
     job_type |-> <<>>, shift |-> <<>>, benefits |-> <<>>, is_remote |-> FALSE,
     is_urgent |-> FALSE, job_snippet |-> <<>>, experience_level |-> <<>>,
     work_model |-> <<"On-site">>, image_link |-> <<>>, apply_link |-> <<>>]

\* lines 293-297: what the card's title link gives
CardDetails(job_card) ==
    IF job_card.link
    THEN [DefaultDetails EXCEPT
              !.job_id = job_card.jk,
              !.job_url = <<"https://in.indeed.com/viewjob?jk=", job_card.jk>>,
              !.title = TextOf("title")]
    ELSE DefaultDetails

\* the assignments of lines 303-327, in the order they run
DetailSteps ==
    <<"company", "location", "image_link", "is_remote", "job_snippet", "salary",
      "job_type", "shift", "benefits", "apply_link">>

\* whether the assignment to a field raises on a document
StepRaises(doc, field) ==
    CASE field = "company" -> doc.og_description = "nocontent"
      [] field = "location" -> doc.title = "nosep"
      [] field = "image_link" -> doc.og_image = "nocontent"
      [] field = "benefits" -> doc.benefits = "noul"
      [] field = "apply_link" -> doc.og_url = "nocontent"
      [] OTHER -> FALSE

\* the value the assignment to a field gives when it does not raise
StepValue(doc, field) ==
    CASE field = "company" ->
             IF doc.og_description = "ok" THEN TextOf("og:description") ELSE PyNone
      [] field = "location" ->
             IF doc.title = "ok" THEN TextOf("title[1]") ELSE PyNone
      [] field = "image_link" ->
             IF doc.og_image = "ok" THEN TextOf("og:image") ELSE PyNone
      [] field = "is_remote" -> doc.remote_badge
      [] field = "job_snippet" ->
             IF doc.description = "ok" THEN TextOf("description") ELSE <<"Not Provided">>
      [] field = "salary" ->
             IF doc.pay = "ok" THEN TextOf("pay") ELSE <<"Not mentioned">>
      [] field = "job_type" ->
             IF doc.job_types = "ok" THEN TextOf("job_types") ELSE <<"Not mentioned">>
      [] field = "shift" ->
             IF doc.shifts = "ok" THEN TextOf("shifts") ELSE <<"Not mentioned">>
      [] field = "benefits" ->
             IF doc.benefits = "ok" THEN TextOf("benefits") ELSE <<"Not mentioned">>
      [] field = "apply_link" ->
             IF doc.og_url = "ok" THEN TextOf("og:url") ELSE <<"Not found">>

\* the try block runs the n-th assignment to its end: the detail page loaded
\* and no assignment up to the n-th raised
StepDone(fetch, n) ==
    /\ fetch.kind = "page"
    /\ \A m \in 1..n : ~StepRaises(fetch.doc, DetailSteps[m])

\* get_job_details: the first exception ends the try block, and what was
\* assigned until then is returned
get_job_details(job_card, fetch) ==
    LET details == CardDetails(job_card)
    IN  [k \in DOMAIN details |->
            IF \E n \in 1..Len(DetailSteps) : DetailSteps[n] = k /\ StepDone(fetch, n)
            THEN StepValue(fetch.doc, k)
            ELSE details[k]]

\* human_like_interaction: the first move is outside every try, the failures
\* of the later moves and scrolls are passed over
human_like_interaction(interaction) ==
    IF interaction.first THEN ReturnNone ELSE Raise("WebDriverException")

\* the sleeps human_like_interaction gets to: the one after its first move
\* (line 248); the scroll loop raises NameError on Keys, which is not
\* imported, before its sleep
InteractionSleeps(interaction) == IF interaction.first THEN <<"sleep">> ELSE <<>>

\* ------------------------------------------------------------ responses
\* {"platform": p, **job}: the keys of job win
WithPlatform(p, job) == Update([platform |-> p], job)

\* the dictionary an endpoint returns for the records of a run
SuccessResponse(p, jobs) ==
    [success |-> TRUE,
     message |-> <<"Found", Len(jobs), p, "jobs">>,
     count |-> Len(jobs),
     data |-> [i \in 1..Len(jobs) |-> WithPlatform(p, jobs[i])]]

\* the HTTPException an endpoint raises
ErrorResponse(p, e) ==
    [status_code |-> HTTP_500_INTERNAL_SERVER_ERROR,
     detail |-> <<p, "scraping failed", e>>]

Pending == [kind |-> "pending"]

\* -------------------------------------------------------------- queries
\* the text of a number
PyInt(n) == <<ToString(n)>>

\* search terms, as the sequences of their words
Keywords == {<<"Data", "Scientist">>, <<"C++">>}
Locations == {<<"New", "York">>}
Flags == {<<"true">>}
Levels == {<<"entry_level">>}
JobTypes == {<<"full_time">>}
TimesPosted == {<<"past_week">>}

\* the search term of the runs
RunKeyword == <<"Data", "Scientist">>

Optional(S) == S \cup {PyNone}

\* the request model of the Indeed endpoint with its defaults (lines 51-59)
IndeedSearchParams(job_title, location, experience_level, remote) ==
    [job_title |-> job_title, location |-> location,
     days_posted |-> PyInt(DEFAULT_DAYS_POSTED), radius |-> PyInt(DEFAULT_RADIUS),
     job_type |-> <<"fulltime">>, sort_by |-> <<"date">>,
     experience_level |-> experience_level, remote |-> remote]

\* the request model of the LinkedIn endpoint (lines 61-68)
LinkedInSearchParams(keywords, location, remote, experience_level, job_type, time_posted, p) ==
    [keywords |-> keywords, location |-> location, remote |-> remote,
     experience_level |-> experience_level, job_type |-> job_type,
     time_posted |-> time_posted, pages |-> PyInt(p)]

\* a filter dictionary that keeps its None values
WithoutNone_Keep(d) == d

\* {k: v for k, v in d.items() if v is not None}
WithoutNone(d) == [k \in {j \in DOMAIN d : d[j] /= PyNone} |-> d[k]]

\* lines 119-131: the Indeed names of the filters, None values removed
IndeedFilters(p) ==
    WithoutNone([q |-> p.job_title, l |-> p.location, fromage |-> p.days_posted,
                 radius |-> p.radius, jt |-> p.job_type, sort |-> p.sort_by,
                 explvl |-> p.experience_level, remote |-> p.remote])

\* quote_plus of one word: '+' is escaped
QuoteWord(w) == IF w = "C++" THEN "C%2B%2B" ELSE w

\* quote_plus of a text: its words escaped, a '+' for each space
RECURSIVE quote_plus(_)
quote_plus(words) ==
    IF Len(words) <= 1 THEN [i \in 1..Len(words) |-> QuoteWord(words[i])]
    ELSE <<QuoteWord(Head(words)), "+">> \o quote_plus(Tail(words))

\* urlencode: every value of the dictionary quoted
urlencode(d) == [k \in DOMAIN d |-> quote_plus(d[k])]

\* lines 205-207: the query string of an Indeed listing page
IndeedQuery(filters, pg) ==
    urlencode(Update(filters, [start |-> PyInt(pg * INDEED_PAGE_SIZE)]))

\* lines 385-393: the query string requests.get builds of params.dict() and
\* start, leaving out the keys whose value is None
LinkedInQuery(p, pg) ==
    urlencode(WithoutNone(Update(p, [start |-> PyInt(pg * LINKEDIN_PAGE_SIZE)])))

\* ----------------------------------------------------------------- state
VARIABLES
    board,         \* the endpoint that was called: "none", "linkedin", "indeed"
    pc,            \* where the run is: "idle", "paginate", "resolve", "cards", "done"
    pages,         \* params.pages
    page,          \* the page variable of the listing loop
    job_ids,       \* scrape_jobs_linkedin: job_ids
    idx,           \* position in job_ids of the identifier being resolved
    attempt,       \* the attempt variable of the retry loop
    jobs_data,     \* scrape_jobs_linkedin: jobs_data
    driver,        \* the browser: "none", "live", "quit"
    job_cards,     \* scrape_indeed: job_cards of the current page
    card,          \* position in job_cards of the card being processed
    job_listings,  \* scrape_indeed: job_listings
    response,      \* what the endpoint gave the caller: Pending, Return(..), Raise(..)
    requests,      \* history: the start offsets of the listing requests issued
    listed,        \* history: entries served on listing pages so far
    discovered,    \* history: identifiers found on listing pages, in order
    listFail,      \* history: a listing fetch of this run failed
    tries,         \* history, per discovered identifier: fetches, fails, resolvedAt
    exhausted,     \* history: identifiers whose every detail fetch failed
    lastFetch,     \* history: the last detail fetch, [kind, job_id, fetch, result]
    events,        \* history: the fetches and sleeps of the run, in order
    interacted,    \* history: the last call of human_like_interaction
    params,        \* the search parameters the endpoint was called with
    query,         \* history: the query string parameters of the last listing request
    cancelled      \* history: the cancellation of the request, and the run at that time

vars == <<board, pc, pages, page, job_ids, idx, attempt, jobs_data, driver,
          job_cards, card, job_listings, response, requests, listed,
          discovered, listFail, tries, exhausted, lastFetch, events, interacted,
          params, query, cancelled>>

linkedinVars == <<job_ids, idx, attempt, jobs_data, pages>>
indeedVars == <<driver, job_cards, card, job_listings>>

Init ==
    /\ board = "none"
    /\ pc = "idle"
    /\ pages = 0
    /\ page = 0
    /\ job_ids = <<>>
    /\ idx = 1
    /\ attempt = 0
    /\ jobs_data = <<>>
    /\ driver = "none"
    /\ job_cards = <<>>
    /\ card = 1
    /\ job_listings = <<>>
    /\ response = Pending
    /\ requests = <<>>
    /\ listed = 0
    /\ discovered = <<>>
    /\ listFail = FALSE
    /\ tries = <<>>
    /\ exhausted = 0
    /\ lastFetch = [kind |-> "none"]
    /\ events = <<>>
    /\ interacted = [kind |-> "none"]
    /\ params = EmptyDict
    /\ query = EmptyDict
    /\ cancelled = [kind |-> "none"]

\* ------------------------------------------------------------- LinkedIn
Last(s) == s[Len(s)]

\* the walrus of line 399: the last ':' segment of the card's URN
EntityId(li) == Last(li.urn)

RECURSIVE IdsOf(_)
IdsOf(lis) ==
    IF lis = <<>> THEN <<>>
    ELSE IF EntityId(Head(lis)) /= "" THEN <<EntityId(Head(lis))>> \o IdsOf(Tail(lis))
    ELSE IdsOf(Tail(lis))

\* the try block of one iteration of the page loop of scrape_jobs_linkedin
ListPage(fetch) ==
    IF fetch.kind = "exception" THEN Raise("RequestException")
    ELSE IF fetch.status /= HTTP_200_OK THEN Raise("HTTPException")
    ELSE IF \E i \in 1..Len(fetch.lis) : ~fetch.lis[i].div THEN Raise("AttributeError")
    ELSE Return(IdsOf(fetch.lis))

\* scrape_linkedin_jobs returns what the run collected
LinkedInReturns(jobs) ==
    /\ pc' = "done"
    /\ response' = Return(SuccessResponse("LinkedIn", jobs))

\* an exception leaves scrape_jobs_linkedin and the endpoint turns it into 500
LinkedInFails(e) ==
    /\ pc' = "done"
    /\ response' = Raise(ErrorResponse("LinkedIn", e))

\* the endpoint is called: the run starts its page loop
scrape_linkedin_jobs(p) ==
    /\ pc = "idle"
    /\ board' = "linkedin"
    /\ pages' = p
    /\ params' = LinkedInSearchParams(RunKeyword, PyNone, PyNone, PyNone, PyNone, PyNone, p)
    /\ IF p = 0 THEN LinkedInReturns(<<>>)
       ELSE pc' = "paginate" /\ UNCHANGED response
    /\ UNCHANGED <<page, job_ids, idx, attempt, jobs_data, indeedVars, requests,
                   listed, discovered, listFail, tries, exhausted, lastFetch,
                   events, interacted, cancelled, query>>

NewTries(n) == [i \in 1..n |-> [fetches |-> 0, fails |-> 0, resolvedAt |-> 0]]

\* one iteration of the page loop (lines 383-408)
\* a page loop that fetches one page more than requested
InRange_Inclusive(pg, n) == pg <= n

\* for page in range(params.pages): pg is a page of the loop
InRange(pg, n) == pg < n

LinkedInPage(fetch) ==
    /\ board = "linkedin" /\ pc = "paginate" /\ InRange(page, pages)
    /\ requests' = Append(requests, page * LINKEDIN_PAGE_SIZE)
    /\ listed' = listed + Len(fetch.lis)
    /\ listFail' = (listFail \/ fetch.kind = "exception" \/ fetch.status /= HTTP_200_OK)
    /\ LET r == ListPage(fetch)
       IN  IF r.kind = "raise"
           THEN /\ LinkedInFails("HTTPException")
                /\ events' = Append(events, "list")
                /\ UNCHANGED <<page, job_ids, discovered, tries>>
           ELSE /\ job_ids' = job_ids \o r.value
                /\ events' = events \o <<"list", "sleep">>
                /\ discovered' = discovered \o r.value
                /\ tries' = tries \o NewTries(Len(r.value))
                /\ page' = page + 1
                /\ IF InRange(page + 1, pages) THEN UNCHANGED <<pc, response>>
                   ELSE IF job_ids' = <<>> THEN LinkedInReturns(<<>>)
                   ELSE pc' = "resolve" /\ UNCHANGED response
    /\ query' = LinkedInQuery(params, page)
    /\ UNCHANGED <<board, pages, idx, attempt, jobs_data, indeedVars, exhausted,
                   lastFetch, interacted, cancelled, params>>

\* a retry loop that runs once more than max_retries
LastAttempt_OneMore(a) == a >= max_retries

\* for attempt in range(max_retries): the loop is over after this attempt
LastAttempt(a) == a + 1 >= max_retries

\* a collector that puts the newest record first
Collect_First(jobs, job_info) == <<job_info>> \o jobs

\* jobs_data.append(job_info)
Collect(jobs, job_info) == Append(jobs, job_info)

\* one attempt of the retry loop for job_ids[idx] (lines 411-420)
LinkedInAttempt(fetch) ==
    /\ board = "linkedin" /\ pc = "resolve" /\ idx <= Len(job_ids)
    /\ LET job_id == job_ids[idx]
           r == scrape_job_page(job_id, fetch)
           ok == Truthy(r)
           next == ok \/ LastAttempt(attempt)
           t == tries[idx]
       IN  /\ lastFetch' = [kind |-> "detail", job_id |-> job_id, fetch |-> fetch, result |-> r]
           /\ events' = IF ok \/ r.kind = "raise" THEN Append(events, "detail")
                        ELSE events \o <<"detail", "sleep">>
           /\ tries' = [tries EXCEPT ![idx] =
                  [fetches |-> t.fetches + 1,
                   fails |-> IF ok THEN t.fails ELSE t.fails + 1,
                   resolvedAt |-> IF ok THEN t.fetches + 1 ELSE t.resolvedAt]]
           /\ IF r.kind = "raise"
              THEN /\ LinkedInFails(r.value)
                   /\ UNCHANGED <<jobs_data, idx, attempt, exhausted>>
              ELSE /\ jobs_data' = IF ok THEN Collect(jobs_data, r.value) ELSE jobs_data
                   /\ exhausted' = IF ~ok /\ LastAttempt(attempt) THEN exhausted + 1
                                   ELSE exhausted
                   /\ idx' = IF next THEN idx + 1 ELSE idx
                   /\ attempt' = IF next THEN 0 ELSE attempt + 1
                   /\ IF next /\ idx = Len(job_ids) THEN LinkedInReturns(jobs_data')
                      ELSE UNCHANGED <<pc, response>>
    /\ UNCHANGED <<board, pages, page, job_ids, indeedVars, requests, listed,
                   discovered, listFail, interacted, cancelled, params, query>>

\* --------------------------------------------------------------- Indeed
\* finally: driver.quit(); scrape_indeed returns job_listings and the
\* endpoint answers with them
IndeedReturns(jobs) ==
    /\ driver' = "quit"
    /\ pc' = "done"
    /\ response' = Return(SuccessResponse("Indeed", jobs))

\* the end of an iteration of the page loop (lines 221-222, whose sleep the
\* calling action logs), and of the loop after its last iteration
IndeedPageEnd(jobs) ==
    /\ page' = page + 1
    /\ IF page + 1 < PAGES_TO_SCRAPE
       THEN pc' = "paginate" /\ UNCHANGED <<driver, response>>
       ELSE IndeedReturns(jobs)

\* the endpoint is called: scrape_indeed gets its driver
scrape_indeed_jobs(launch) ==
    /\ pc = "idle"
    /\ board' = "indeed"
    /\ IF launch = "ok"
       THEN /\ driver' = "live"
            /\ IF PAGES_TO_SCRAPE > 0
               THEN pc' = "paginate" /\ UNCHANGED response
               ELSE IndeedReturns(<<>>)
       ELSE /\ driver' = IF launch = "script_error" THEN "live" ELSE "none"
            /\ pc' = "done"
            /\ response' = Raise(ErrorResponse("Indeed", "WebDriverException"))
    /\ params' = IndeedSearchParams(RunKeyword, PyNone, PyNone, PyNone)
    /\ UNCHANGED <<linkedinVars, page, job_cards, card, job_listings, requests,
                   listed, discovered, listFail, tries, exhausted, lastFetch,
                   events, interacted, cancelled, query>>

CardId(job_card) == CardDetails(job_card).job_id

\* one iteration of the page loop up to the cards (lines 205-215)
IndeedPage(fetch, interaction) ==
    /\ board = "indeed" /\ pc = "paginate" /\ page < PAGES_TO_SCRAPE
    /\ requests' = Append(requests, page * INDEED_PAGE_SIZE)
    /\ listFail' = (listFail \/ fetch.kind = "exception" \/ fetch.blocked)
    /\ interacted' = IF fetch.kind = "exception" THEN interacted
                     ELSE [kind |-> "called", interaction |-> interaction,
                           result |-> human_like_interaction(interaction)]
    /\ IF fetch.kind = "exception" \/ human_like_interaction(interaction).kind = "raise"
       THEN /\ IndeedReturns(job_listings)
            /\ events' = IF fetch.kind = "exception" THEN Append(events, "list")
                         ELSE events \o <<"list", "sleep">>
            /\ UNCHANGED <<page, job_cards, card, listed, discovered, tries>>
       ELSE /\ job_cards' = fetch.cards
            /\ events' = events \o <<"list", "sleep">> \o InteractionSleeps(interaction)
                             \o <<"sleep">>
                             \o (IF fetch.cards = <<>> THEN <<"sleep">> ELSE <<>>)
            /\ card' = 1
            /\ listed' = listed + Len(fetch.cards)
            /\ discovered' = discovered \o [i \in 1..Len(fetch.cards) |-> CardId(fetch.cards[i])]
            /\ tries' = tries \o NewTries(Len(fetch.cards))
            /\ IF fetch.cards = <<>>
               THEN IndeedPageEnd(job_listings)
               ELSE pc' = "cards" /\ UNCHANGED <<page, driver, response>>
    /\ query' = IndeedQuery(IndeedFilters(params), page)
    /\ UNCHANGED <<board, linkedinVars, job_listings, exhausted, lastFetch, params,
                   cancelled>>

\* one iteration of the card loop (lines 217-219)
IndeedCard(fetch) ==
    /\ board = "indeed" /\ pc = "cards" /\ card <= Len(job_cards)
    /\ LET job_data == get_job_details(job_cards[card], fetch)
           ok == fetch.kind = "page"
           n == Len(tries) - Len(job_cards) + card
       IN  /\ job_listings' = Append(job_listings, job_data)
           /\ lastFetch' = [kind |-> "detail", job_id |-> job_data.job_id,
                            fetch |-> fetch, result |-> Return(job_data)]
           /\ tries' = [tries EXCEPT ![n] =
                  [fetches |-> 1,
                   fails |-> IF ok THEN 0 ELSE 1,
                   resolvedAt |-> IF ok THEN 1 ELSE 0]]
           /\ exhausted' = IF ok THEN exhausted ELSE exhausted + 1
           /\ events' = events \o <<"detail">>
                            \o (IF ok THEN <<"sleep">> ELSE <<>>)
                            \o (IF card = Len(job_cards) THEN <<"sleep">> ELSE <<>>)
           /\ card' = card + 1
           /\ IF card = Len(job_cards)
              THEN IndeedPageEnd(job_listings')
              ELSE UNCHANGED <<pc, page, driver, response>>
    /\ UNCHANGED <<board, linkedinVars, job_cards, requests, listed, discovered,
                   listFail, interacted, cancelled, params, query>>

Launches == {"ok", "launch_error", "script_error"}

Next ==
    \/ \E p \in 0..MaxPages : scrape_linkedin_jobs(p)
    \/ \E fetch \in LinkedInListings(MaxListed - listed) : LinkedInPage(fetch)
    \/ \E fetch \in DetailFetches(LinkedInRunDocs) : LinkedInAttempt(fetch)
    \/ \E launch \in Launches : scrape_indeed_jobs(launch)
    \/ \E fetch \in IndeedListings(MaxListed - listed), interaction \in Interactions :
           IndeedPage(fetch, interaction)
    \/ \E fetch \in IndeedDetailFetches(IndeedRunDocs) : IndeedCard(fetch)

Spec == Init /\ [][Next]_vars

\* ------------------------------------------------- detail pages alone
\* scrape_job_page and get_job_details applied to every document
ApplyLinkedIn(job_id, fetch) ==
    /\ board' = "linkedin"
    /\ lastFetch' = [kind |-> "detail", job_id |-> job_id, fetch |-> fetch,
                     result |-> scrape_job_page(job_id, fetch)]
    /\ UNCHANGED <<pc, pages, page, job_ids, idx, attempt, jobs_data, indeedVars,
                   response, requests, listed, discovered, listFail, tries, exhausted,
                   events, interacted, cancelled, params, query>>

ApplyIndeed(job_card, fetch) ==
    /\ board' = "indeed"
    /\ lastFetch' = [kind |-> "detail", job_id |-> CardId(job_card), fetch |-> fetch,
                     result |-> Return(get_job_details(job_card, fetch))]
    /\ UNCHANGED <<pc, pages, page, job_ids, idx, attempt, jobs_data, indeedVars,
                   response, requests, listed, discovered, listFail, tries, exhausted,
                   events, interacted, cancelled, params, query>>

ExtractNext ==
    \/ /\ lastFetch.kind = "none"
       /\ \E job_id \in JobIds, fetch \in DetailFetches(LinkedInDocs) :
              ApplyLinkedIn(job_id, fetch)
    \/ /\ lastFetch.kind = "none"
       /\ \E job_card \in JobCards, fetch \in IndeedDetailFetches(IndeedDocs) :
              ApplyIndeed(job_card, fetch)

ExtractSpec == Init /\ [][ExtractNext]_vars

\* ------------------------------------------------------- cancellation
\* the detail fetches made so far
DetailCount == Cardinality({i \in 1..Len(events) : events[i] = "detail"})

\* the request is cancelled, or a timeout of its caller fires, while the
\* retry loop runs. scrape_linkedin_jobs awaits nothing and the loop of lines
\* 410-420 blocks in requests.get and time.sleep, so the run reads no signal:
\* only the history variable changes.
Cancel ==
    /\ board = "linkedin" /\ pc = "resolve"
    /\ cancelled.kind = "none"
    /\ cancelled' = [kind |-> "signal", records |-> jobs_data, fetched |-> DetailCount,
                     at |-> idx]
    /\ UNCHANGED <<board, pc, pages, page, linkedinVars, indeedVars, response, requests,
                   listed, discovered, listFail, tries, exhausted, lastFetch, events,
                   interacted, params, query>>

CancelNext == Next \/ Cancel

CancelSpec == Init /\ [][CancelNext]_vars

\* ------------------------------------------------------ queries alone
\* the listing queries of every request model
BuildIndeedQuery(p, pg) ==
    /\ board' = "indeed"
    /\ params' = p
    /\ page' = pg
    /\ query' = IndeedQuery(IndeedFilters(p), pg)
    /\ UNCHANGED <<pc, pages, job_ids, idx, attempt, jobs_data, indeedVars, response,
                   requests, listed, discovered, listFail, tries, exhausted,
                   lastFetch, events, interacted, cancelled>>

BuildLinkedInQuery(p, n, pg) ==
    /\ board' = "linkedin"
    /\ params' = p
    /\ pages' = n
    /\ page' = pg
    /\ query' = LinkedInQuery(p, pg)
    /\ UNCHANGED <<pc, job_ids, idx, attempt, jobs_data, indeedVars, response,
                   requests, listed, discovered, listFail, tries, exhausted,
                   lastFetch, events, interacted, cancelled>>

QueryNext ==
    \/ /\ board = "none"
       /\ \E k \in Keywords, l \in Optional(Locations), e \in Optional(Levels),
             r \in Optional(Flags), pg \in 0..(PAGES_TO_SCRAPE - 1) :
              BuildIndeedQuery(IndeedSearchParams(k, l, e, r), pg)
    \/ /\ board = "none"
       /\ \E k \in Keywords, l \in Optional(Locations), r \in Optional(Flags),
             e \in Optional(Levels), j \in Optional(JobTypes),
             t \in Optional(TimesPosted), n \in 1..MaxPages :
              \E pg \in 0..(n - 1) :
                  BuildLinkedInQuery(LinkedInSearchParams(k, l, r, e, j, t, n), n, pg)

QuerySpec == Init /\ [][QueryNext]_vars

\* ---------------------------------------------------------------- claims
Done == pc = "done"
Succeeded == Done /\ response.kind = "return"
Failed == Done /\ response.kind = "raise"

\* the records the caller received
Records == response.value.data

Platform == IF board = "indeed" THEN "Indeed" ELSE "LinkedIn"

RECURSIVE IsSubseq(_, _)
IsSubseq(s, t) ==
    IF s = <<>> THEN TRUE
    ELSE IF t = <<>> THEN FALSE
    ELSE IF Head(s) = Head(t) THEN IsSubseq(Tail(s), Tail(t))
    ELSE IsSubseq(s, Tail(t))

\* the identifiers among the first n discovered whose detail fetch succeeded
RECURSIVE ResolvedIds(_)
ResolvedIds(n) ==
    IF n = 0 THEN <<>>
    ELSE IF tries[n].resolvedAt > 0 THEN Append(ResolvedIds(n - 1), discovered[n])
    ELSE ResolvedIds(n - 1)

IdsOfRecords(jobs) == [i \in 1..Len(jobs) |-> jobs[i].job_id]

\* C1: in a LinkedIn run, an identifier whose detail fetch failed k times
\* before succeeding is resolved on fetch k+1 with k < max_retries, no fetch
\* follows its resolution, an identifier the loop is through with is resolved
\* exactly when it failed fewer than max_retries times, and the records
\* collected are those of the resolved identifiers.
C1_RetryResolution ==
    board = "linkedin" =>
        /\ \A i \in 1..Len(tries) :
              LET t == tries[i]
              IN  /\ t.resolvedAt > 0 =>
                        /\ t.fails < max_retries
                        /\ t.resolvedAt = t.fails + 1
                        /\ t.fetches = t.resolvedAt
                  /\ t.fetches <= max_retries
                  /\ (pc = "resolve" /\ i < idx) \/ Succeeded =>
                        (t.resolvedAt > 0 <=> t.fails < max_retries)
        /\ IdsOfRecords(jobs_data) = ResolvedIds(Len(tries))

\* an identifier that failed twice was resolved on its third fetch, and
\* another one failed max_retries times and was left out
C1_Witness ==
    /\ Succeeded /\ board = "linkedin" /\ Len(tries) = 2
    /\ tries[1].fails = max_retries /\ tries[1].resolvedAt = 0
    /\ tries[2].fails = 2 /\ tries[2].resolvedAt = 3
    /\ IdsOfRecords(Records) = <<discovered[2]>>

\* C2: the identifiers of the records a run returns are a subsequence of the
\* identifiers in the order the listing pages gave them.
C2_DiscoveryOrder ==
    /\ IsSubseq(IdsOfRecords(jobs_data), discovered)
    /\ IsSubseq(IdsOfRecords(job_listings), discovered)
    /\ Succeeded => IsSubseq(IdsOfRecords(Records), discovered)

\* two different identifiers, the first resolved on its third fetch and the
\* second on its first, are returned in the order of their discovery
C2_Witness ==
    /\ Succeeded /\ board = "linkedin" /\ Len(discovered) = 2
    /\ discovered[1] /= discovered[2]
    /\ tries[1].resolvedAt = 3 /\ tries[2].resolvedAt = 1
    /\ IdsOfRecords(Records) = discovered

\* C3: a run in which a listing fetch failed ends with an error, never with
\* a success response.
C3_ListingFailureFatal == Done /\ listFail => response.kind = "raise"

\* C4: a run that succeeds returns one record per discovered identifier
\* except those whose every detail fetch failed.
C4_DetailFailuresDropped ==
    Succeeded => Len(Records) = Len(discovered) - exhausted

\* the address of a record: url on LinkedIn, job_url on Indeed
UrlOf(job) == IF "url" \in DOMAIN job THEN job.url ELSE job.job_url

\* C5: every record returned has a platform, an identifier and an address
\* that are not empty.
C5_RecordInvariant ==
    Succeeded =>
        \A i \in 1..Len(Records) :
            /\ Records[i].platform /= ""
            /\ Records[i].job_id /= ""
            /\ UrlOf(Records[i]) /= <<>>

\* a detail fetch that brought a document
HasDoc(fetch) ==
    \/ fetch.kind = "page"
    \/ fetch.kind = "response" /\ fetch.status = HTTP_200_OK

\* C6: a detail document that was fetched gives a record, and each field
\* whose own extraction does not fail on that document has the value that
\* extraction gives, whatever happens to the other fields.
C6_FieldIsolation ==
    lastFetch.kind = "detail" /\ HasDoc(lastFetch.fetch) =>
        /\ lastFetch.result.kind = "return"
        /\ board = "indeed" =>
              \A n \in 1..Len(DetailSteps) :
                  ~StepRaises(lastFetch.fetch.doc, DetailSteps[n]) =>
                      lastFetch.result.value[DetailSteps[n]]
                          = StepValue(lastFetch.fetch.doc, DetailSteps[n])

\* the offsets of n listing requests for pages of the given size
Offsets(n, size) == [i \in 1..n |-> (i - 1) * size]

\* C7: a run whose listing fetches all succeeded issued one listing request
\* per page asked for, at the offsets 0, size, 2 * size, ...
C7_ExactlyNPages ==
    Done /\ ~listFail =>
        /\ board = "linkedin" => requests = Offsets(pages, LINKEDIN_PAGE_SIZE)
        /\ board = "indeed" /\ Succeeded =>
              requests = Offsets(PAGES_TO_SCRAPE, INDEED_PAGE_SIZE)

\* C8: a LinkedIn run ends with an error only when a listing fetch failed.
C8_MissNotFatal == Failed /\ board = "linkedin" => listFail

\* C9: a run in which a listing fetch failed does not answer as a run that
\* found no listings does, and a run that dropped identifiers does not
\* answer as a run that returned the same records without dropping any.
C9_Distinguishable ==
    /\ Done /\ listFail => response /= Return(SuccessResponse(Platform, <<>>))
    /\ Succeeded /\ exhausted > 0 /\ board = "linkedin" =>
          response /= Return(SuccessResponse(Platform, jobs_data))

\* C10: whatever a detail fetch meets, it gives its caller a record or None
\* and no exception: None when the request fails, answers with another
\* status than 200 or the document cannot be parsed.
C10_FetcherBoundary ==
    lastFetch.kind = "detail" =>
        /\ lastFetch.result.kind \in {"return", "none"}
        /\ lastFetch.result.kind = "return" =>
              lastFetch.result.value.job_id = lastFetch.job_id
        /\ board = "linkedin" =>
              (lastFetch.result.kind = "none" <=>
                  \/ ~HasDoc(lastFetch.fetch)
                  \/ lastFetch.fetch.doc.org = "nohref")

\* a document that cannot be parsed was fetched and None came back
C10_Witness ==
    /\ lastFetch.kind = "detail" /\ board = "linkedin"
    /\ lastFetch.fetch.kind = "response" /\ lastFetch.fetch.status = HTTP_200_OK
    /\ lastFetch.fetch.doc.org = "nohref"
    /\ lastFetch.result = ReturnNone

\* C11: a call of human_like_interaction returns normally whichever of its
\* moves and scrolls fail, and the page loop that called it runs to its end.
C11_InteractionSwallowed ==
    interacted.kind = "called" =>
        /\ interacted.result.kind /= "raise"
        /\ Done => page = PAGES_TO_SCRAPE

\* C12: each detail fetch of a run has a pacing sleep before it that is later
\* than every earlier detail fetch.
C12_PacedFetches ==
    \A i \in 1..Len(events) :
        events[i] = "detail" =>
            \E j \in 1..(i - 1) :
                /\ events[j] = "sleep"
                /\ \A k \in (j + 1)..(i - 1) : events[k] /= "detail"

\* C15: an Indeed run that has ended has left no launched browser running.
C15_SessionQuit == Done /\ board = "indeed" => driver /= "live"

\* unquote_plus of one word
UnquoteWord(w) == IF w = "C%2B%2B" THEN "C++" ELSE w

\* unquote_plus: the words between the '+' of a quoted text
RECURSIVE unquote_plus(_)
unquote_plus(tokens) ==
    IF tokens = <<>> THEN <<>>
    ELSE IF Head(tokens) = "+" THEN unquote_plus(Tail(tokens))
    ELSE <<UnquoteWord(Head(tokens))>> \o unquote_plus(Tail(tokens))

\* the board's names of the search term, in the request model and the query
KeywordField == IF board = "indeed" THEN "job_title" ELSE "keywords"
KeywordKey == IF board = "indeed" THEN "q" ELSE "keywords"

\* the optional filters of the board's request model that have no default,
\* and the name each has in the query
OptionalFilters ==
    IF board = "indeed" THEN {"location", "experience_level", "remote"}
    ELSE {"location", "remote", "experience_level", "job_type", "time_posted"}

FilterKey(f) ==
    IF board = "indeed"
    THEN CASE f = "location" -> "l" [] f = "experience_level" -> "explvl"
           [] f = "remote" -> "remote"
    ELSE f

\* a listing query was built for a request that sets the search term alone
KeywordOnly ==
    /\ query /= EmptyDict
    /\ \A f \in OptionalFilters : params[f] = PyNone

\* C13 as stated: the query of a request that sets the search term alone
\* carries the term and, beside the offset, no other parameter: nothing with
\* a default value, nothing that is None, no page count.
C13_Original ==
    KeywordOnly =>
        /\ KeywordKey \in DOMAIN query
        /\ unquote_plus(query[KeywordKey]) = params[KeywordField]
        /\ DOMAIN query \subseteq {KeywordKey, "start"}

\* C13 as amended: the query carries the search term unchanged under the
\* board's name for it and has no parameter for a filter that is None; the
\* filters with a default are sent with it (Indeed: fromage 7, radius 50,
\* jt fulltime, sort date; LinkedIn: pages) beside the start offset.
C13_QueryConstruction ==
    query /= EmptyDict =>
        /\ KeywordKey \in DOMAIN query
        /\ unquote_plus(query[KeywordKey]) = params[KeywordField]
        /\ \A f \in OptionalFilters :
              IF params[f] = PyNone THEN FilterKey(f) \notin DOMAIN query
              ELSE /\ FilterKey(f) \in DOMAIN query
                   /\ unquote_plus(query[FilterKey(f)]) = params[f]
        /\ KeywordOnly =>
              IF board = "indeed"
              THEN /\ DOMAIN query = {"q", "fromage", "radius", "jt", "sort", "start"}
                   /\ query.fromage = PyInt(DEFAULT_DAYS_POSTED)
                   /\ query.radius = PyInt(DEFAULT_RADIUS)
                   /\ query.jt = <<"fulltime">> /\ query.sort = <<"date">>
              ELSE /\ DOMAIN query = {"keywords", "pages", "start"}
                   /\ query.pages = PyInt(pages)

\* a LinkedIn query for the second page of a search for a term of two words
C13_Witness ==
    /\ KeywordOnly /\ board = "linkedin" /\ page = 1
    /\ params.keywords = <<"Data", "Scientist">>
    /\ query.keywords = <<"Data", "+", "Scientist">>
    /\ query.start = PyInt(LINKEDIN_PAGE_SIZE)

\* C14: once the cancellation signal has fired during detail resolution the
\* run makes no further detail fetch, and it returns exactly the records
\* resolved before the signal, the other identifiers not counted as
\* exhausted.
C14_Cancellation ==
    cancelled.kind = "signal" =>
        /\ DetailCount = cancelled.fetched
        /\ Done => /\ Succeeded
                   /\ Records = cancelled.records
                   /\ \A i \in cancelled.at..Len(job_ids) : tries[i].fetches = 0

\* the listing and detail fetches of a LinkedIn run, and their order
ListCount == Cardinality({i \in 1..Len(events) : events[i] = "list"})

ListingsFirst ==
    \A i, j \in 1..Len(events) :
        events[i] = "list" /\ events[j] = "detail" => i < j

WorkBounded ==
    /\ ListCount = Len(requests) /\ ListCount <= pages
    /\ DetailCount <= max_retries * Len(job_ids)
    /\ Len(tries) = Len(job_ids)
    /\ \A i \in 1..Len(tries) : tries[i].fetches <= max_retries
    /\ Len(job_ids) <= listed
    /\ DetailCount > 0 => ListCount = pages
    /\ ListingsFirst

\* the run has its next fetch to make
StepReady ==
    \/ pc = "paginate" /\ InRange(page, pages)
    \/ pc = "resolve" /\ idx <= Len(job_ids)

\* a step of the run is one more fetch
OneMoreFetch == ListCount' + DetailCount' = ListCount + DetailCount + 1

\* C16 as stated: a LinkedIn run ends, within the bounds, with at least one
\* detail fetch made for each identifier that it discovered.
C16_Original ==
    board = "linkedin" /\ Done =>
        /\ WorkBounded
        /\ \A i \in 1..Len(tries) : tries[i].fetches >= 1

\* C16 as amended: every LinkedIn run ends, since until it has ended it has a
\* next fetch to make, each of its steps is one more fetch and the fetches
\* are bounded; it makes at most N listing
\* fetches, at most max_retries detail fetches for each identifier and
\* max_retries * D in all, none of them before the last listing page was
\* fetched; and a run that returns its records has made at least one detail
\* fetch for each identifier (a run that fails while paginating makes none).
C16_BoundedWork ==
    /\ [](board = "linkedin" => WorkBounded)
    /\ [](board = "linkedin" /\ Succeeded =>
             \A i \in 1..Len(tries) : tries[i].fetches >= 1)
    /\ [](board = "linkedin" /\ ~Done => StepReady)
    /\ [][board = "linkedin" => OneMoreFetch]_vars

\* a run of two pages that returned after resolving one identifier at the
\* first fetch and giving up another after max_retries fetches
C16_Witness ==
    /\ board = "linkedin" /\ Succeeded /\ pages = 2 /\ ListCount = 2
    /\ Len(job_ids) = 2
    /\ tries[1].fetches = max_retries
    /\ tries[2].fetches = 1
    /\ DetailCount = max_retries + 1

====
